---- MODULE Spec2Model ----
(***************************************************************************)
(* The gogoat updater: update(), the per-component decisions, applyPatch   *)
(* and the archive extraction, as a state machine over the installation    *)
(* directory, the config document updater.yaml and the remote servers.     *)
(*                                                                         *)
(* Two builds of the Game/Mods updater are in the sources and both are     *)
(* modelled, selected by the variable build:                               *)
(*   MainGo   - src/main.go lines 1-439: zip archives, extraction skips a  *)
(*              file whose SHA-1 equals the entry's (archiveFileIsTheSame) *)
(*   SevenZip - src/unnamed/part_002: zip and 7z archives, passwords, no   *)
(*              comparison before a file is written                        *)
(***************************************************************************)
EXTENDS Integers, Sequences, FiniteSets, TLC

(* ---------------------------- bounds ---------------------------------- *)

\* number of mods in the config document (config.Mods)
NumMods == 2

\* number of times the updater is started
MaxRuns == 2

\* number of dot-delimited segments of the version strings given to baseVersion
MaxSegments == 3

\* largest size in bytes a transport reports for a download
MaxSize == 3

(* ---------------------------- values ---------------------------------- *)

MainGo == "main.go"

SevenZip == "part_002"

Builds == {MainGo, SevenZip}

\* a Go pointer: nil, or the address of a value
None == <<>>

Some(v) == <<v>>

IsNil(p) == Len(p) = 0

Deref(p) == p[1]

\* a version string, as its dot-separated segments: "1.0.1" is <<"1","0","1">>
V100 == <<"1", "0", "0">>

V101 == <<"1", "0", "1">>

V200 == <<"2", "0", "0">>

\* the empty string has one empty segment and no dot
EmptyVersion == <<"">>

RemoteVersions == {V100, V101, V200}

Mods == 1 .. NumMods

\* component 0 is the game, component i >= 1 is config.Mods[i]
Components == 0 .. NumMods

\* a URL: what it names, which component, and the suffix of its path
Url(kind, c, ext) == <<kind, c, ext>>

\* a path below the installation directory, as its segments
GameIni == <<"Game.ini">>

VersionFile == <<"version">>

DataF == <<"Data", "f">>

ModsM == <<"Mods", "m">>

Paths == {GameIni, VersionFile, DataF, ModsM}

\* the file contents the archives carry, and the content of a file that was
\* created (truncated) and not written
BaseContent == <<"base", 0>>

PatchContent == <<"patch", 0>>

ModContent(i) == <<"mod", i>>

EmptyContent == <<"empty", 0>>

VersionTxt == "_version.txt"

PatchZip == "_patch.zip"

PatchSevenZ == "_patch.7z"

(* -------------------------- pure functions ----------------------------- *)

\* strings.HasSuffix(url, ".7z")
HasSuffix7z(url) == url[Len(url)] = ".7z"

\* a variant that returns every version as it is
baseVersionUnchanged(version) == version

\* baseVersion: strings.LastIndex(version, ".") is -1 exactly when the version
\* has a single segment; otherwise version[:index] + ".0"
baseVersion(version) ==
    IF Len(version) <= 1
    THEN version
    ELSE SubSeq(version, 1, Len(version) - 1) \o <<"0">>

\* calculateFileHash: the SHA-1 of a content (taken to be collision free)
calculateFileHash(content) == <<"sha1", content>>

\* filepath.Dir(name)
Dir(name) == SubSeq(name, 1, Len(name) - 1)

\* a variant that creates no directory
MkdirAllNothing(dir) == {}

\* os.MkdirAll(dir): dir and every ancestor of it
MkdirAll(dir) == {SubSeq(dir, 1, n) : n \in 1 .. Len(dir)}

\* the installation marker update() looks for before it installs the base game
Marker(b) == IF b = MainGo THEN GameIni ELSE VersionFile

\* an archive entry
FileEntry(name, content) == [Name |-> name, IsDir |-> FALSE, Content |-> content]

DirEntry(name) == [Name |-> name, IsDir |-> TRUE, Content |-> EmptyContent]

\* the archive a URL serves
ArchiveAt(url) ==
    CASE url[1] = "base" ->
           <<DirEntry(<<"Data">>), FileEntry(GameIni, BaseContent),
             FileEntry(VersionFile, BaseContent), FileEntry(DataF, BaseContent)>>
      [] url[1] = "patch" -> <<FileEntry(DataF, PatchContent)>>
      \* a mod's archive lists the directory of its own file after the file
      [] OTHER -> <<FileEntry(DataF, ModContent(url[2])), FileEntry(ModsM, ModContent(url[2])),
                    DirEntry(<<"Mods">>)>>

(* ------------------------------ state ---------------------------------- *)

VARIABLES
    build,          \* which build of the updater runs
    disk,           \* the document stored in updater.yaml
    config,         \* update()'s Config value
    loaded,         \* the document stored when the current run began
    remote,         \* the version each component's version_url serves
    tree,           \* the files of the installation directory: path -> content
    dirs,           \* the directories of the installation directory
    tmp,            \* the temporary files that exist
    pc,             \* where the process is
    idx,            \* the loop variable of "for _, mod := range config.Mods"
    forceUpdate,    \* update()'s forceUpdate
    remoteVersion,  \* the version read from _version.txt
    err,            \* the error update() returned
    ap,             \* the frame of the applyPatch call in progress
    obs,            \* what the current run did, per component
    hist,           \* what the runs so far did
    runs            \* runs started

vars == <<build, disk, config, loaded, remote, tree, dirs, tmp, pc, idx, forceUpdate,
          remoteVersion, err, ap, obs, hist, runs>>

\* game.Url is applied for the game, but is not its patch archive
BaseGame == 0 - 1

ApTargets == Components \cup {BaseGame}

NoErr == [kind |-> "none", comp |-> BaseGame]

Error(kind, c) == [kind |-> kind, comp |-> c]

NoUrl == Url("none", 0, "")

NoAp == [url |-> NoUrl, password |-> None, name |-> "", ei |-> 0, ret |-> "",
         comp |-> BaseGame, writes |-> 0, same |-> FALSE, before |-> [p \in Paths |-> None]]

NoObs ==
    [class |-> [c \in Components |-> "-"],
     fetched |-> [c \in Components |-> 0],
     downloads |-> [c \in ApTargets |-> 0],
     applied |-> [c \in ApTargets |-> 0],
     forcedAt |-> [c \in Components |-> "-"],
     prompted |-> {},
     wrote |-> 0,
     marker |-> FALSE,
     fault |-> NoErr,
     entry |-> [seen |-> FALSE, existed |-> FALSE, same |-> FALSE, created |-> FALSE,
                ok |-> FALSE, matches |-> FALSE]]

Ext(sevenZ) == IF sevenZ THEN ".7z" ELSE ".zip"

\* the Game record of the document (type Game)
GameRecord(version, sevenZ, password) ==
    [Name |-> "game", Url |-> Url("base", 0, Ext(sevenZ)), Version |-> version,
     VersionUrl |-> Url("version", 0, ".txt"), PatchUrl |-> Url("patch", 0, Ext(sevenZ)),
     Password |-> password]

\* a Mod record of the document (type Mod)
ModRecord(i, version, tracked, sevenZ, password) ==
    [Name |-> <<"mod", i>>, Version |-> version,
     VersionUrl |-> IF tracked THEN Some(Url("version", i, ".txt")) ELSE None,
     PatchUrl |-> Url("mod", i, Ext(sevenZ)), Password |-> password]

\* the ways a mod can stand in the document: no version_url and no version, a
\* version_url and no version yet, a version_url and a recorded version
ModKinds == {"untracked", "unrecorded", "tracked"}

ModOfKind(i, kind, sevenZ, password) ==
    ModRecord(i, IF kind = "tracked" THEN Some(V100) ELSE None, kind # "untracked",
              sevenZ, password)

\* the installation directory before the base game is installed, and after
FreshTree == [p \in Paths |-> None]

InstalledTree ==
    [p \in Paths |-> IF p \in {GameIni, VersionFile, DataF} THEN Some(BaseContent) ELSE None]

\* the game versions a document can record: Version is a plain string, and a
\* document without the key (or with an empty one) unmarshals to ""
GameVersions == {V100, EmptyVersion}

Init ==
    /\ build \in Builds
    /\ \E sz \in {BaseGame, 0, NumMods}, pw \in {None, Some("pw")},
          kinds \in [Mods -> ModKinds], gv \in GameVersions :
          \* main.go knows zip archives only; under part_002 no component, the game
          \* or the last mod has a 7z patch, with or without a password on record
          /\ build = MainGo => sz = BaseGame /\ pw = None
          /\ sz = BaseGame => pw = None
          /\ disk = [Game |-> GameRecord(gv, sz = 0, IF sz = 0 THEN pw ELSE None),
                     Mods |-> [i \in Mods |->
                                 ModOfKind(i, kinds[i], sz = i, IF sz = i THEN pw ELSE None)],
                     Intact |-> TRUE]
          /\ remote \in [Components -> RemoteVersions]
          \* the version a server publishes matters for a mod with a recorded version only
          /\ \A i \in Mods : kinds[i] # "tracked" => remote[i] = V100
          /\ \A i \in Mods : remote[i] # V101
          /\ hist = [everApplied |-> [c \in Components |->
                                        IF c = 0 THEN TRUE ELSE kinds[c] = "tracked"],
                     last |-> NoUrl,
                     idem |-> [done |-> FALSE, same |-> FALSE, treeSame |-> FALSE, writes |-> 0],
                     prevOk |-> FALSE]
    /\ tree \in {FreshTree, InstalledTree}
    /\ dirs = IF tree = FreshTree THEN {} ELSE {<<"Data">>}
    /\ config = disk
    /\ loaded = disk
    /\ tmp = {}
    /\ pc = "idle"
    /\ idx = 0
    /\ forceUpdate = FALSE
    /\ remoteVersion = EmptyVersion
    /\ err = NoErr
    /\ ap = NoAp
    /\ obs = NoObs
    /\ runs = 0

(* ---------------------------- collaborators ---------------------------- *)

\* what a download can meet: the whole stream arrives, the server cannot be
\* reached (http.Get or megadl.Download returns an error), or the stream breaks
\* off after the output file was created (io.Copy returns an error)
DownloadOutcomes == {"ok", "unreachable", "truncated"}

\* download: main.go reads response.Body and info.Size before it looks at err, a
\* nil dereference when the server cannot be reached; part_002 returns err first
downloadPanics(b, outcome) == b = MainGo /\ outcome = "unreachable"

\* a variant in which download never creates its output file
downloadCreatesNothing(outcome) == FALSE

\* download: os.Create(file) is reached unless the server cannot be reached
downloadCreates(outcome) == outcome # "unreachable"

\* fileExists
fileExists(path) == ~IsNil(tree[path])

\* a variant that installs the base game in every run
NeedsBaseGameAlways(b) == TRUE

\* update(): downloadBaseGame is called when the marker file does not exist
NeedsBaseGame(b) == ~fileExists(Marker(b))

\* update(): a password is asked for when none is on record and the patch is a 7z
NeedsPassword(b, password, patchUrl) ==
    b = SevenZip /\ IsNil(password) /\ HasSuffix7z(patchUrl)

\* a base-version check that lets every version through
BaseDiffersNever(currentVersion, remoteV) == FALSE

\* downloadBaseGame and attemptGameUpdate: the base versions differ
BaseDiffers(currentVersion, remoteV) == baseVersion(currentVersion) # baseVersion(remoteV)

\* a comparison that never raises forceUpdate
VersionChangedNever(version, recorded) == FALSE

\* update(): "if version != config.Game.Version" and "if version != *patch.Version"
VersionChanged(version, recorded) == version # recorded

\* a loop head that looks at forceUpdate alone
TakesAlwaysUpdateOnForceOnly(mod, force) == force

\* update(): the mod is updated without a look at its version
TakesAlwaysUpdate(mod, force) == IsNil(mod.VersionUrl) \/ IsNil(mod.Version) \/ force

\* a variant that returns the empty version of the error paths on success too
ReturnedVersionEmpty(remoteV) == EmptyVersion

\* the version attemptGameUpdate and attemptUpdateUsingVersionFile return
ReturnedVersion(remoteV) == remoteV

Observe(field, c, value) == [obs EXCEPT ![field][c] = value]

Count(field, c) == [obs EXCEPT ![field][c] = @ + 1]

\* what the run met: a download that did not deliver is kept as the fault of
\* the component it was for
Met(o, outcome, c) ==
    IF outcome = "ok" THEN o ELSE [o EXCEPT !.fault = Error("transport", c)]

\* update() returns e: main() goes on with the cleanup
Return(e) == /\ err' = e
             /\ pc' = "main"

\* applyPatch(url, password) is called; ret is where its caller goes on
CallApplyPatch(url, password, ret, c) ==
    /\ ap' = [url |-> url, password |-> password,
              name |-> IF build = SevenZip /\ HasSuffix7z(url) THEN PatchSevenZ ELSE PatchZip,
              ei |-> 1, ret |-> ret, comp |-> c, writes |-> 0,
              same |-> (hist.last = url), before |-> tree]
    /\ pc' = "applyPatch"

(* ------------------------------ update() ------------------------------- *)

\* the process is started: update() reads and parses updater.yaml
Launch ==
    /\ pc \in {"idle", "exited", "crashed"}
    /\ runs < MaxRuns
    /\ runs' = runs + 1
    /\ obs' = [NoObs EXCEPT !.marker = fileExists(Marker(build))]
    /\ idx' = 0
    /\ forceUpdate' = FALSE
    /\ remoteVersion' = EmptyVersion
    /\ ap' = NoAp
    /\ loaded' = disk
    /\ \E readable \in BOOLEAN :
          \* a document a failed write left incomplete is not read back
          IF readable /\ disk.Intact
          THEN /\ config' = disk
               /\ err' = NoErr
               /\ pc' = "gameVersion"
          ELSE /\ Return(Error("config", BaseGame))
               /\ UNCHANGED config
    \* whether the run before this one ended well
    /\ hist' = [hist EXCEPT !.prevOk = (pc = "exited" /\ err = NoErr)]
    /\ UNCHANGED <<build, disk, remote, tree, dirs, tmp>>

\* download(config.Game.VersionUrl, "_version.txt") and readVersion
FetchGameVersion ==
    /\ pc = "gameVersion"
    /\ \E outcome \in DownloadOutcomes :
          /\ obs' = Met(Count("fetched", 0), outcome, 0)
          /\ tmp' = IF downloadCreates(outcome) THEN tmp \cup {VersionTxt} ELSE tmp
          /\ IF downloadPanics(build, outcome)
             THEN /\ pc' = "crashed"
                  /\ UNCHANGED <<err, remoteVersion>>
             ELSE IF outcome # "ok"
             THEN /\ Return(Error("transport", 0))
                  /\ UNCHANGED remoteVersion
             ELSE /\ remoteVersion' = remote[0]
                  /\ pc' = IF build = SevenZip THEN "gamePassword" ELSE "baseGame"
                  /\ UNCHANGED err
    /\ UNCHANGED <<build, disk, config, loaded, remote, tree, dirs, idx, forceUpdate, ap,
                   hist, runs>>

\* part_002: the password of the game is asked for and kept in config.Game
GamePassword ==
    /\ pc = "gamePassword"
    /\ IF NeedsPassword(build, config.Game.Password, config.Game.PatchUrl)
       THEN \E answered \in BOOLEAN :
              IF answered
              THEN /\ config' = [config EXCEPT !.Game.Password = Some("pw")]
                   /\ obs' = [obs EXCEPT !.prompted = @ \cup {0}]
                   /\ pc' = "baseGame"
                   /\ UNCHANGED err
              ELSE /\ Return(Error("password", 0))
                   /\ UNCHANGED <<config, obs>>
       ELSE /\ pc' = "baseGame"
            /\ UNCHANGED <<config, obs, err>>
    /\ UNCHANGED <<build, disk, loaded, remote, tree, dirs, tmp, idx, forceUpdate,
                   remoteVersion, ap, hist, runs>>

\* if !fileExists(marker) { downloadBaseGame(config.Game, remoteVersion) }
DownloadBaseGame ==
    /\ pc = "baseGame"
    /\ IF ~NeedsBaseGame(build)
       THEN /\ pc' = "gameUpdate"
            /\ UNCHANGED <<err, ap>>
       ELSE IF BaseDiffers(config.Game.Version, remoteVersion)
       THEN /\ Return(Error("base game version", 0))
            /\ UNCHANGED ap
       ELSE /\ CallApplyPatch(config.Game.Url, config.Game.Password, "gameUpdate", BaseGame)
            /\ UNCHANGED err
    /\ UNCHANGED <<build, disk, config, loaded, remote, tree, dirs, tmp, idx, forceUpdate,
                   remoteVersion, obs, hist, runs>>

\* attemptGameUpdate(config.Game, remoteVersion), up to its call of applyPatch
AttemptGameUpdate ==
    /\ pc = "gameUpdate"
    /\ IF config.Game.Version # remoteVersion
       THEN IF BaseDiffers(config.Game.Version, remoteVersion)
            THEN /\ obs' = Observe("class", 0, "Incompatible")
                 /\ Return(Error("incompatible", 0))
                 /\ UNCHANGED ap
            ELSE /\ obs' = Observe("class", 0, "Outdated")
                 /\ CallApplyPatch(config.Game.PatchUrl, config.Game.Password, "gameDone", 0)
                 /\ UNCHANGED err
       ELSE /\ obs' = Observe("class", 0, "UpToDate")
            /\ pc' = "gameDone"
            /\ UNCHANGED <<err, ap>>
    /\ UNCHANGED <<build, disk, config, loaded, remote, tree, dirs, tmp, idx, forceUpdate,
                   remoteVersion, hist, runs>>

\* attemptGameUpdate returned remoteVersion: forceUpdate and config.Game.Version
GameDone ==
    /\ pc = "gameDone"
    /\ forceUpdate' = (forceUpdate \/ VersionChanged(ReturnedVersion(remoteVersion),
                                                      config.Game.Version))
    /\ config' = [config EXCEPT !.Game.Version = ReturnedVersion(remoteVersion)]
    /\ idx' = 1
    /\ pc' = "mods"
    /\ UNCHANGED <<build, disk, loaded, remote, tree, dirs, tmp, remoteVersion, err, ap,
                   obs, hist, runs>>

\* the head of the loop over config.Mods: the password, then the choice between
\* alwaysUpdate and attemptUpdateUsingVersionFile
ModStep ==
    /\ pc = "mods"
    /\ IF idx > NumMods
       THEN /\ pc' = "writeConfig"
            /\ UNCHANGED <<err, ap, obs>>
       ELSE LET mod == config.Mods[idx] IN
            IF NeedsPassword(build, mod.Password, mod.PatchUrl)
            THEN \E answered \in BOOLEAN :
                   IF answered
                   THEN \* *mod.Password = password, and mod.Password is nil
                        /\ pc' = "crashed"
                        /\ obs' = [obs EXCEPT !.prompted = @ \cup {idx}]
                        /\ UNCHANGED <<err, ap>>
                   ELSE /\ Return(Error("password", idx))
                        /\ UNCHANGED <<ap, obs>>
            ELSE IF TakesAlwaysUpdate(mod, forceUpdate)
            THEN /\ obs' = [obs EXCEPT !.class[idx] = "ForcedDue",
                                       !.forcedAt[idx] = IF forceUpdate THEN "T" ELSE "F"]
                 /\ CallApplyPatch(mod.PatchUrl, mod.Password, "modForced", idx)
                 /\ UNCHANGED err
            ELSE /\ obs' = [obs EXCEPT !.forcedAt[idx] = "F"]
                 /\ pc' = "modVersion"
                 /\ UNCHANGED <<err, ap>>
    /\ UNCHANGED <<build, disk, config, loaded, remote, tree, dirs, tmp, idx, forceUpdate,
                   remoteVersion, hist, runs>>

\* alwaysUpdate(mod) returned nil: forceUpdate = true
ModForced ==
    /\ pc = "modForced"
    /\ forceUpdate' = TRUE
    /\ idx' = idx + 1
    /\ pc' = "mods"
    /\ UNCHANGED <<build, disk, config, loaded, remote, tree, dirs, tmp, remoteVersion,
                   err, ap, obs, hist, runs>>

\* attemptUpdateUsingVersionFile(mod), up to its call of applyPatch
AttemptUpdateUsingVersionFile ==
    /\ pc = "modVersion"
    /\ \E outcome \in DownloadOutcomes :
          /\ tmp' = IF downloadCreates(outcome) THEN tmp \cup {VersionTxt} ELSE tmp
          /\ IF downloadPanics(build, outcome)
             THEN /\ pc' = "crashed"
                  /\ obs' = Met(Count("fetched", idx), outcome, idx)
                  /\ UNCHANGED <<err, remoteVersion, ap>>
             ELSE IF outcome # "ok"
             THEN /\ Return(Error("transport", idx))
                  /\ obs' = Met(Count("fetched", idx), outcome, idx)
                  /\ UNCHANGED <<remoteVersion, ap>>
             ELSE /\ remoteVersion' = remote[idx]
                  /\ IF Deref(config.Mods[idx].Version) # remote[idx]
                     THEN /\ obs' = [obs EXCEPT !.fetched[idx] = @ + 1,
                                                !.class[idx] = "Outdated"]
                          /\ CallApplyPatch(config.Mods[idx].PatchUrl,
                                            config.Mods[idx].Password, "modUpdated", idx)
                     ELSE /\ obs' = [obs EXCEPT !.fetched[idx] = @ + 1,
                                                !.class[idx] = "UpToDate"]
                          /\ pc' = "modUpdated"
                          /\ UNCHANGED ap
                  /\ UNCHANGED err
    /\ UNCHANGED <<build, disk, config, loaded, remote, tree, dirs, idx, forceUpdate,
                   hist, runs>>

\* attemptUpdateUsingVersionFile returned remoteVersion: forceUpdate and *mod.Version
ModUpdated ==
    /\ pc = "modUpdated"
    /\ forceUpdate' = (forceUpdate \/ VersionChanged(ReturnedVersion(remoteVersion),
                                                      Deref(config.Mods[idx].Version)))
    /\ config' = [config EXCEPT !.Mods[idx].Version = Some(ReturnedVersion(remoteVersion))]
    /\ idx' = idx + 1
    /\ pc' = "mods"
    /\ UNCHANGED <<build, disk, loaded, remote, tree, dirs, tmp, remoteVersion, err, ap,
                   obs, hist, runs>>

\* what os.WriteFile can meet: the whole document is written, the file cannot be
\* opened, or the write breaks off after the file was truncated
WriteOutcomes == {"ok", "openFail", "partial"}

\* a variant that stores the whole document although the file cannot be opened
PersistedAlways(old, doc, outcome) ==
    IF outcome = "partial" THEN [doc EXCEPT !.Intact = FALSE] ELSE doc

\* a variant whose marshalled document loses the version_url of every mod
PersistedWithoutVersionUrl(old, doc, outcome) ==
    IF outcome = "openFail" THEN old
    ELSE [Game |-> doc.Game,
          Mods |-> [i \in DOMAIN doc.Mods |-> [doc.Mods[i] EXCEPT !.VersionUrl = None]],
          Intact |-> outcome = "ok"]

\* the stored document after os.WriteFile("updater.yaml", data, 0644)
Persisted(old, doc, outcome) ==
    CASE outcome = "ok" -> doc
      [] outcome = "partial" -> [doc EXCEPT !.Intact = FALSE]
      [] OTHER -> old

\* yaml.Marshal(config) and os.WriteFile("updater.yaml", data, 0644)
WriteConfig ==
    /\ pc = "writeConfig"
    /\ obs' = [obs EXCEPT !.wrote = @ + 1]
    /\ \E outcome \in WriteOutcomes :
          /\ disk' = Persisted(disk, config, outcome)
          /\ IF outcome = "ok"
             THEN Return(NoErr)
             ELSE Return(Error("write", BaseGame))
    /\ UNCHANGED <<build, config, loaded, remote, tree, dirs, tmp, idx, forceUpdate,
                   remoteVersion, ap, hist, runs>>

\* the temporary files main() removes after update() returned
Removed(b) == IF b = MainGo THEN {VersionTxt, PatchZip} ELSE {VersionTxt, PatchZip, PatchSevenZ}

\* main(), after update() returned
Main ==
    /\ pc = "main"
    /\ tmp' = tmp \ Removed(build)
    /\ pc' = "exited"
    /\ UNCHANGED <<build, disk, config, loaded, remote, tree, dirs, idx, forceUpdate,
                   remoteVersion, err, ap, obs, hist, runs>>

(* ----------------------------- applyPatch ------------------------------ *)

\* applyPatch: download(url, name)
ApplyPatchDownload ==
    /\ pc = "applyPatch"
    /\ \E outcome \in DownloadOutcomes :
          /\ obs' = Met(Count("downloads", ap.comp), outcome, ap.comp)
          /\ tmp' = IF downloadCreates(outcome) THEN tmp \cup {ap.name} ELSE tmp
          /\ IF downloadPanics(build, outcome)
             THEN /\ pc' = "crashed"
                  /\ UNCHANGED err
             ELSE IF outcome # "ok"
             THEN Return(Error("transport", ap.comp))
             ELSE /\ pc' = "extract"
                  /\ UNCHANGED err
    /\ UNCHANGED <<build, disk, config, loaded, remote, tree, dirs, idx, forceUpdate,
                   remoteVersion, ap, hist, runs>>

\* archiveFileIsTheSame(fileName, zipFile), when the entry can be opened
archiveFileIsTheSame(fileName, content) ==
    /\ fileExists(fileName)
    /\ calculateFileHash(content) = calculateFileHash(Deref(tree[fileName]))

\* extractArchive of main.go leaves a file alone whose hash is the entry's;
\* extractZipArchive and extractSevenZipArchive of part_002 compare nothing
SkipExtraction(b, fileName, content) == b = MainGo /\ archiveFileIsTheSame(fileName, content)

\* main.go opens the entry inside archiveFileIsTheSame, before the file is created,
\* when the file exists; everywhere else os.Create comes before the entry is opened
OpensEntryFirst(b, fileName) == b = MainGo /\ fileExists(fileName)

\* opening an entry's content stream works, or fails (a wrong password, bad data)
EntryOutcomes == {"ok", "openFail"}

\* one turn of the loop over the archive's entries
ExtractEntry ==
    /\ pc = "extract"
    /\ ap.ei <= Len(ArchiveAt(ap.url))
    /\ LET entry == ArchiveAt(ap.url)[ap.ei]
           name == entry.Name
           existed == fileExists(name)
           same == existed /\ Deref(tree[name]) = entry.Content
       IN  IF entry.IsDir
           THEN /\ ap' = [ap EXCEPT !.ei = @ + 1]
                /\ UNCHANGED <<tree, dirs, pc, err, obs, hist>>
           ELSE \E outcome \in EntryOutcomes :
                  IF outcome = "openFail" /\ OpensEntryFirst(build, name)
                  THEN /\ Return(Error("extract", ap.comp))
                       /\ obs' = [obs EXCEPT !.entry =
                                     [seen |-> TRUE, existed |-> existed, same |-> same,
                                      created |-> FALSE, ok |-> FALSE,
                                      matches |-> same],
                                             !.fault = Error("extract", ap.comp)]
                       /\ hist' = [hist EXCEPT !.last = NoUrl]
                       /\ UNCHANGED <<tree, dirs, ap>>
                  ELSE IF outcome = "ok" /\ SkipExtraction(build, name, entry.Content)
                  THEN /\ ap' = [ap EXCEPT !.ei = @ + 1]
                       /\ obs' = [obs EXCEPT !.entry =
                                     [seen |-> TRUE, existed |-> existed, same |-> same,
                                      created |-> FALSE, ok |-> TRUE, matches |-> same]]
                       /\ UNCHANGED <<tree, dirs, pc, err, hist>>
                  ELSE /\ dirs' = dirs \cup MkdirAll(Dir(name))
                       /\ tree' = [tree EXCEPT ![name] =
                                     Some(IF outcome = "ok" THEN entry.Content
                                                            ELSE EmptyContent)]
                       /\ obs' = [obs EXCEPT !.entry =
                                     [seen |-> TRUE, existed |-> existed, same |-> same,
                                      created |-> TRUE, ok |-> outcome = "ok",
                                      matches |-> outcome = "ok"],
                                             !.fault = IF outcome = "ok" THEN @
                                                       ELSE Error("extract", ap.comp)]
                       /\ IF outcome = "ok"
                          THEN /\ ap' = [ap EXCEPT !.ei = @ + 1, !.writes = @ + 1]
                               /\ UNCHANGED <<pc, err, hist>>
                          ELSE /\ Return(Error("extract", ap.comp))
                               /\ ap' = [ap EXCEPT !.writes = @ + 1]
                               /\ hist' = [hist EXCEPT !.last = NoUrl]
    /\ UNCHANGED <<build, disk, config, loaded, remote, tmp, idx, forceUpdate,
                   remoteVersion, runs>>

\* applyPatch: the archive is through, os.Remove(name), and back to the caller
ApplyPatchReturn ==
    /\ pc = "extract"
    /\ ap.ei > Len(ArchiveAt(ap.url))
    /\ tmp' = tmp \ {ap.name}
    /\ obs' = Count("applied", ap.comp)
    /\ hist' = [everApplied |-> [c \in Components |->
                                   hist.everApplied[c] \/ c = ap.comp],
                last |-> ap.url,
                idem |-> [done |-> TRUE, same |-> ap.same, treeSame |-> (tree = ap.before),
                          writes |-> ap.writes],
                prevOk |-> hist.prevOk]
    /\ pc' = ap.ret
    /\ ap' = NoAp
    /\ UNCHANGED <<build, disk, config, loaded, remote, tree, dirs, idx, forceUpdate,
                   remoteVersion, err, runs>>

Next ==
    \/ Launch
    \/ FetchGameVersion
    \/ GamePassword
    \/ DownloadBaseGame
    \/ AttemptGameUpdate
    \/ GameDone
    \/ ModStep
    \/ ModForced
    \/ AttemptUpdateUsingVersionFile
    \/ ModUpdated
    \/ ApplyPatchDownload
    \/ ExtractEntry
    \/ ApplyPatchReturn
    \/ WriteConfig
    \/ Main

Spec == Init /\ [][Next]_vars

(* ------------------------- words of the claims ------------------------- *)

\* the process ended: main() returned, or the runtime stopped it on a panic
Exited == pc = "exited"

Crashed == pc = "crashed"

Succeeded == pc = "exited" /\ err = NoErr

\* the run got past component c
Passed(c) == idx > c

\* component c has a version source
Tracked(c) == c = 0 \/ ~IsNil(disk.Mods[c].VersionUrl)

\* the recorded version of component c in a document, as a pointer
Recorded(doc, c) == IF c = 0 THEN Some(doc.Game.Version) ELSE doc.Mods[c].Version

\* the spec's Incompatible: a recorded version that is not empty, a remote version
\* that differs from it, and different bases
IncompatibleVersions(recorded, remoteV) ==
    /\ recorded # EmptyVersion
    /\ remoteV # recorded
    /\ baseVersion(remoteV) # baseVersion(recorded)

\* C1: when a component is found outdated, it and every later component the run
\* gets past are applied, the later ones whether or not their versions match
C1_CascadePropagation ==
    \A i \in Components :
        obs.class[i] = "Outdated" =>
            \A j \in Components : j >= i /\ Passed(j) => obs.applied[j] >= 1

\* C1: a run ended well in which a component before the last was outdated, every
\* later one had its recorded version equal to the remote one, and all were applied
C1_Witness ==
    /\ Succeeded
    /\ \E i \in Components :
          /\ i < NumMods
          /\ obs.class[i] = "Outdated"
          /\ \A j \in Components :
                j > i => /\ Recorded(loaded, j) = Some(remote[j])
                         /\ ~IsNil(loaded.Mods[j].VersionUrl)
          /\ \A j \in Components : j >= i => obs.applied[j] >= 1

\* C2: a component, game or mod, that is reached without cascade with a recorded
\* version whose base differs from the remote version's has its patch archive
\* neither downloaded nor applied, and the run does not end well
C2_IncompatibleNeverApplied ==
    \A c \in Components :
        ( /\ runs >= 1
          /\ Tracked(c)
          /\ ~IsNil(Recorded(loaded, c))
          /\ IncompatibleVersions(Deref(Recorded(loaded, c)), remote[c])
          /\ c # 0 => obs.forcedAt[c] = "F" )
        => /\ obs.downloads[c] = 0
           /\ obs.applied[c] = 0
           /\ ~Succeeded

C4_CascadeRecordsVersion ==
    Succeeded =>
        \A c \in Mods :
            ( /\ Tracked(c)
              /\ ~IsNil(Recorded(loaded, c))
              /\ obs.forcedAt[c] = "T"
              /\ obs.applied[c] >= 1 )
            => Recorded(disk, c) = Some(remote[c])

\* C5: when the process has ended, no temporary file is left
C5_NoTemporaryFileLeft == (Exited \/ Crashed) => tmp = {}

\* C6: an application of the archive that was applied last, with nothing in
\* between, leaves the tree as it found it and creates no file
C6_SecondApplicationWritesNothing ==
    (hist.idem.done /\ hist.idem.same) => (hist.idem.treeSame /\ hist.idem.writes = 0)

\* C7: a file entry whose stream opens: no file there, and the file is created
\* with the entry's content; a file with the same content, and it is not opened
\* for writing; a file with another content, and it is overwritten with the entry's
C7_SkipOnMatch ==
    (obs.entry.seen /\ obs.entry.ok) =>
        /\ (obs.entry.existed /\ obs.entry.same) => ~obs.entry.created
        /\ ~(obs.entry.existed /\ obs.entry.same) => obs.entry.created
        /\ obs.entry.matches

\* every component has a version source and a recorded version equal to the remote one
AllUpToDate ==
    \A c \in Components :
        /\ c # 0 => ~IsNil(loaded.Mods[c].VersionUrl)
        /\ Recorded(loaded, c) = Some(remote[c])

\* C8: a run in which every component is tracked and up to date downloads and
\* applies no patch archive and stores the document it loaded
C8_NoCascadeRun ==
    (runs >= 1 /\ AllUpToDate) =>
        /\ \A c \in Components : obs.downloads[c] = 0 /\ obs.applied[c] = 0
        /\ disk = loaded

\* C9: a mod without a version source never has its version fetched or classified,
\* is applied in every run that gets past it, whatever forceUpdate was when the
\* loop reached it, and has no recorded version in the Config value or on disk
C9_UntrackedAlwaysApplied ==
    \A k \in Mods :
        IsNil(disk.Mods[k].VersionUrl) =>
            /\ obs.fetched[k] = 0
            /\ obs.class[k] \in {"-", "ForcedDue"}
            /\ (pc = "modVersion" => idx # k)
            /\ (Passed(k) => obs.applied[k] >= 1)
            /\ IsNil(config.Mods[k].Version)
            /\ IsNil(disk.Mods[k].Version)

\* C9: the second run ended well; it reached one mod without a version source with
\* forceUpdate false and a later one with forceUpdate true, and applied both
C9_Witness ==
    /\ Succeeded
    /\ runs = MaxRuns
    /\ \E k1, k2 \in Mods :
          /\ IsNil(disk.Mods[k1].VersionUrl) /\ IsNil(disk.Mods[k2].VersionUrl)
          /\ obs.forcedAt[k1] = "F" /\ obs.forcedAt[k2] = "T"
          /\ obs.applied[k1] >= 1 /\ obs.applied[k2] >= 1
          /\ IsNil(disk.Mods[k1].Version) /\ IsNil(disk.Mods[k2].Version)

\* C10: after a run that ended well, a mod has a recorded version exactly when it
\* has a version source and an application of it has completed
C10_RecordedIffTrackedAndApplied ==
    Succeeded =>
        \A k \in Mods :
            ~IsNil(disk.Mods[k].Version) <=>
                (~IsNil(disk.Mods[k].VersionUrl) /\ hist.everApplied[k])

\* component c has no version on record in the document the run loaded: the key
\* is absent, or its value is the empty string
NoVersionOnRecord(c) == Recorded(loaded, c) \in {None, Some(EmptyVersion)}

\* C11: a component with a version source and no version on record is never found
\* incompatible, whatever the remote version is, and a run that ends well has
\* applied its patch and stored the remote version as its recorded version
C11_EmptyRecordedIsOutdated ==
    \A c \in Components :
        Tracked(c) /\ NoVersionOnRecord(c) =>
            /\ obs.class[c] # "Incompatible"
            /\ (err.kind \in {"incompatible", "base game version"} => err.comp # c)
            /\ (Succeeded => /\ obs.applied[c] >= 1
                             /\ Recorded(disk, c) = Some(remote[c]))

\* C12: after a run that ended well, every component the run classified Outdated
\* was downloaded and applied exactly once in that run, and the stored document
\* records the remote version that was fetched for it
C12_OutdatedAppliedOnceAndRecorded ==
    Succeeded =>
        \A c \in Components :
            obs.class[c] = "Outdated" =>
                /\ obs.fetched[c] = 1
                /\ obs.downloads[c] = 1
                /\ obs.applied[c] = 1
                /\ Recorded(disk, c) = Some(remote[c])
                /\ Recorded(config, c) = Some(remote[c])

\* C12: a run ended well in which the game was up to date and a mod with a
\* recorded version was found outdated, applied once, and its remote version stored
C12_Witness ==
    /\ Succeeded
    /\ obs.class[0] = "UpToDate"
    /\ \E k \in Mods :
          /\ obs.class[k] = "Outdated"
          /\ obs.applied[k] = 1
          /\ Recorded(loaded, k) # Some(remote[k])
          /\ Recorded(disk, k) = Some(remote[k])

\* the password of component c in a document, as a pointer
PasswordOf(doc, c) == IF c = 0 THEN doc.Game.Password ELSE doc.Mods[c].Password

\* the patch source of component c in a document
PatchUrlOf(doc, c) == IF c = 0 THEN doc.Game.PatchUrl ELSE doc.Mods[c].PatchUrl

\* C13: a component whose patch source ends in .7z and that has no password on
\* record is asked for before its archive is downloaded; once the prompt was
\* answered the password is held for that component, the archive is opened with
\* it, and a run that ends well has stored it in the document
C13_PromptedPasswordUsedAndStored ==
    \A c \in Components :
        HasSuffix7z(PatchUrlOf(loaded, c)) /\ IsNil(PasswordOf(loaded, c)) =>
            /\ (obs.downloads[c] >= 1 => c \in obs.prompted)
            /\ (c \in obs.prompted => ~IsNil(PasswordOf(config, c)))
            /\ (pc \in {"applyPatch", "extract"} /\ ap.comp = c =>
                    ~IsNil(ap.password) /\ ap.password = PasswordOf(config, c))
            /\ (Succeeded /\ build = SevenZip => ~IsNil(PasswordOf(disk, c)))

\* the exit status of the process once it has ended: main() returns without a
\* call of os.Exit, so a run that returns ends with status 0 whatever update()
\* returned; a panic makes the Go runtime end the process with status 2
ExitStatus == IF Crashed THEN 2 ELSE 0

\* main() printed "Error: ..." before it returned
ErrorPrinted == Exited /\ err # NoErr

\* C14: when the process has ended, its exit status is 0 exactly when the run
\* ended well; a run that failed has ended with another status, with its
\* temporary files removed and the error message printed
C14_ExitStatusTellsSuccess ==
    Exited \/ Crashed =>
        /\ (ExitStatus = 0 <=> Succeeded)
        /\ (~Succeeded => ExitStatus # 0 /\ tmp = {} /\ ErrorPrinted)

\* the run ended in failure: update() returned an error, or the process panicked
Failed == Crashed \/ (Exited /\ err # NoErr)

\* C15, as stated: os.WriteFile is called at most once in a run and only after the
\* loop over the mods has ended, and whenever a run has ended in failure the
\* stored document is the one that was stored when the run began
C15_FailedRunKeepsStoredConfig ==
    /\ obs.wrote <= 1
    /\ (obs.wrote >= 1 => idx > NumMods /\ pc \in {"main", "exited"})
    /\ (Failed => disk = loaded)

\* C15, amended: os.WriteFile is called at most once in a run and only after the
\* loop over the mods has ended; a run that failed before that call leaves the
\* stored document as it was when the run began, and a run that failed in that
\* call leaves it as it was or incomplete, never a complete updated document
C15_FailedRunBeforeWriteKeepsStoredConfig ==
    /\ obs.wrote <= 1
    /\ (obs.wrote >= 1 => idx > NumMods /\ pc \in {"main", "exited"})
    /\ (Failed /\ obs.wrote = 0 => disk = loaded)
    /\ (Failed /\ obs.wrote = 1 => disk = loaded \/ ~disk.Intact)

\* C15: a run failed at a mod after the game's patch was applied: the new game
\* version is in the Config value in memory and the stored document is untouched
C15_Witness ==
    /\ Exited /\ err # NoErr
    /\ err.comp \in Mods
    /\ obs.applied[0] = 1
    /\ obs.wrote = 0
    /\ config.Game.Version # loaded.Game.Version
    /\ disk = loaded

\* the position in the list of the component a fault or an application is for
\* (the base game archive belongs to the game)
Position(c) == IF c = BaseGame THEN 0 ELSE c

\* no version was fetched and no archive downloaded or applied for a component
\* after position k
NothingAfter(k) ==
    \A j \in Components :
        j > k => obs.fetched[j] = 0 /\ obs.downloads[j] = 0 /\ obs.applied[j] = 0

\* C16: once a version fetch, an archive download or the extraction of an entry
\* has failed for the component at position k, update() has returned that error,
\* the loop has not moved past k, nothing was fetched, downloaded or applied for
\* a later component and no document was written; and a run ends well only when
\* every component was found up to date or was applied
C16_FailureAbortsAtComponent ==
    /\ obs.fault # NoErr =>
          /\ pc \in {"main", "exited"}
          /\ err = obs.fault
          /\ ~Passed(Position(obs.fault.comp))
          /\ NothingAfter(Position(obs.fault.comp))
          /\ obs.wrote = 0
    /\ Succeeded =>
          \A c \in Components : obs.class[c] = "UpToDate" \/ obs.applied[c] >= 1

\* C17: once a download has failed in the transport, the process has not
\* panicked, update() has returned that failure as its error, the download was
\* not tried again, and when main() has returned the temporary files are gone
C17_UnreachableIsReportedNotCrash ==
    obs.fault.kind = "transport" =>
        /\ ~Crashed
        /\ pc \in {"main", "exited"}
        /\ err = obs.fault
        /\ obs.downloads[obs.fault.comp] <= 1
        /\ obs.fetched[Position(obs.fault.comp)] <= 1
        /\ (Exited => tmp = {} /\ ErrorPrinted)

(* ------------------- baseVersion as a function of its input ------------- *)

\* the segments the version strings are made of
Segments == {"0", "1", "2", "7", "9"}

\* the version strings given to baseVersion: one segment (no dot) and more
VersionInputs == UNION {[1..n -> Segments] : n \in 1..MaxSegments}

\* the two calls in `baseVersion(game.Version) != baseVersion(remoteVersion)`
\* are about to be made, on any two version strings
InitBase ==
    \* baseVersion is the same text in main.go and in part_002
    /\ build = MainGo
    /\ \E current, remoteV \in VersionInputs :
          ap = [version |-> current, other |-> remoteV, result |-> None,
                otherResult |-> None]
    /\ pc = "baseVersion"
    /\ disk = [Game |-> GameRecord(V100, FALSE, None),
               Mods |-> [i \in Mods |-> ModOfKind(i, "untracked", FALSE, None)],
               Intact |-> TRUE]
    /\ config = disk
    /\ loaded = disk
    /\ remote = [c \in Components |-> V100]
    /\ tree = FreshTree
    /\ dirs = {}
    /\ tmp = {}
    /\ idx = 0
    /\ forceUpdate = FALSE
    /\ remoteVersion = EmptyVersion
    /\ err = NoErr
    /\ obs = NoObs
    /\ hist = [everApplied |-> [c \in Components |-> FALSE], last |-> NoUrl,
               idem |-> [done |-> FALSE, same |-> FALSE, treeSame |-> FALSE, writes |-> 0],
               prevOk |-> FALSE]
    /\ runs = 0

\* both calls of baseVersion return
BaseVersionCalls ==
    /\ pc = "baseVersion"
    /\ ap' = [ap EXCEPT !.result = Some(baseVersion(ap.version)),
                        !.otherResult = Some(baseVersion(ap.other))]
    /\ pc' = "returned"
    /\ UNCHANGED <<build, disk, config, loaded, remote, tree, dirs, tmp, idx, forceUpdate,
                   remoteVersion, err, obs, hist, runs>>

NextBase == BaseVersionCalls

SpecBase == InitBase /\ [][NextBase]_vars

\* r is v when v has one segment, and otherwise v with its last segment made "0"
LastSegmentZeroed(v, r) ==
    IF Len(v) = 1
    THEN r = v
    ELSE /\ Len(r) = Len(v)
         /\ r[Len(v)] = "0"
         /\ \A i \in 1..(Len(v) - 1) : r[i] = v[i]

\* v and w have more than one segment and differ in the last one at most
SameButLastSegment(v, w) ==
    /\ Len(v) = Len(w)
    /\ Len(v) > 1
    /\ \A i \in 1..(Len(v) - 1) : v[i] = w[i]

\* C18: baseVersion returns a version without a dot as it is and any other with
\* its last segment replaced by 0; versions that differ in the last segment only
\* have equal bases; the base of 1.2.7 and of 1.2.0 is 1.2.0, and the bases of
\* 2.0.0 and 1.9.9 differ
C18_BaseVersionZeroesLastSegment ==
    pc = "returned" =>
        LET v == ap.version
            w == ap.other
            r == Deref(ap.result)
            s == Deref(ap.otherResult)
        IN  /\ LastSegmentZeroed(v, r)
            /\ LastSegmentZeroed(w, s)
            /\ (SameButLastSegment(v, w) => r = s)
            /\ (v = <<"1", "2", "7">> /\ w = <<"1", "2", "0">> =>
                    r = <<"1", "2", "0">> /\ s = <<"1", "2", "0">>)
            /\ (v = <<"2", "0", "0">> /\ w = <<"1", "9", "9">> => r # s)

\* C18: baseVersion has returned for 1.2.7 and 1.2.0, with 1.2.0 for both
C18_Witness ==
    /\ pc = "returned"
    /\ ap.version = <<"1", "2", "7">>
    /\ ap.other = <<"1", "2", "0">>
    /\ ap.result = Some(<<"1", "2", "0">>)
    /\ ap.otherResult = ap.result

\* an archive was applied in this run for a layer before component j: the patch
\* of an earlier component, or for a mod the base game archive
EarlierLayerApplied(j) ==
    \/ \E i \in Components : i < j /\ obs.applied[i] >= 1
    \/ j >= 1 /\ obs.applied[BaseGame] >= 1

\* C19: once an archive was applied for an earlier layer in a run, the base game
\* archive included, every later component the run gets past is applied
C19_AnyEarlierApplicationForcesLater ==
    \A j \in Components :
        Passed(j) /\ EarlierLayerApplied(j) => obs.applied[j] >= 1

\* the run has begun on component j: its version was fetched, its archive was
\* downloaded, or the branch to take for it was decided
Started(j) == obs.fetched[j] > 0 \/ obs.downloads[j] > 0 \/ obs.class[j] # "-"

\* applyPatch is at work for the component at position c
InApplication(c) == pc \in {"applyPatch", "extract"} /\ Position(ap.comp) = c

\* C20: the game comes first and the mods follow in list order: when the run has
\* begun on a component, every earlier one was decided, is past and is not being
\* applied; an archive is extracted only after its download to the temporary
\* file has completed; and while an archive is downloaded or extracted it is the
\* archive of the component the run stands at, with nothing begun for a later one
C20_OneComponentAtATimeInOrder ==
    /\ \A j \in Components :
          Started(j) =>
              \A i \in Components :
                  i < j => Passed(i) /\ obs.class[i] # "-" /\ ~InApplication(i)
    /\ (pc = "extract" =>
            /\ ap.name \in tmp
            /\ obs.downloads[ap.comp] = obs.applied[ap.comp] + 1)
    /\ (pc \in {"applyPatch", "extract"} =>
            /\ Position(ap.comp) = idx
            /\ \A j \in Components : j > idx => ~Started(j))
    /\ Cardinality({c \in Components : InApplication(c)}) <= 1

\* C20: the archive of the last mod is being extracted from its temporary file
\* after the game and every earlier mod were applied in the same run
C20_Witness ==
    /\ pc = "extract"
    /\ ap.comp = NumMods
    /\ ap.name \in tmp
    /\ \A i \in Components : i < NumMods => obs.applied[i] = 1 /\ Passed(i)

\* document doc has the components of document old, in the same order, each with
\* the name, the archive locators and the version source it has in old
SameComponents(doc, old) ==
    /\ doc.Game.Name = old.Game.Name
    /\ doc.Game.Url = old.Game.Url
    /\ doc.Game.VersionUrl = old.Game.VersionUrl
    /\ doc.Game.PatchUrl = old.Game.PatchUrl
    /\ DOMAIN doc.Mods = DOMAIN old.Mods
    /\ \A i \in DOMAIN old.Mods :
          /\ doc.Mods[i].Name = old.Mods[i].Name
          /\ doc.Mods[i].VersionUrl = old.Mods[i].VersionUrl
          /\ doc.Mods[i].PatchUrl = old.Mods[i].PatchUrl

\* C21: in every state of a run the Config value in memory has the components of
\* the document the run began with, unchanged in number, order, name, patch
\* source and version source, and so has every document the run has stored in
\* full: only recorded versions and passwords may differ
C21_OnlyVersionAndPasswordChange ==
    /\ SameComponents(config, loaded)
    /\ (disk.Intact => SameComponents(disk, loaded))

\* C21: a run ended well that stored a document with a new recorded version and
\* a password that was not on record, on the components it was loaded with
C21_Witness ==
    /\ Succeeded
    /\ \E c \in Components : Recorded(disk, c) # Recorded(loaded, c)
    /\ \E c \in Components : PasswordOf(disk, c) # PasswordOf(loaded, c)
    /\ SameComponents(disk, loaded)

\* the archive entry the loop of the extraction stands at is a directory
AtDirEntry ==
    /\ pc = "extract"
    /\ ap.ei <= Len(ArchiveAt(ap.url))
    /\ ArchiveAt(ap.url)[ap.ei].IsDir

\* every directory above path p exists
ParentsExist(p, ds) == \A n \in 1..(Len(p) - 1) : SubSeq(p, 1, n) \in ds

\* C22: every file of the installation directory lies in directories that exist;
\* a step that writes a file leaves all its parent directories in place, wherever
\* the archive lists them; and the step over a directory entry writes no file
C22_DirectoriesBeforeFiles ==
    /\ [](\A p \in Paths : fileExists(p) => ParentsExist(p, dirs))
    /\ [][\A p \in Paths : tree'[p] # tree[p] => ParentsExist(p, dirs')]_vars
    /\ [][AtDirEntry => tree' = tree]_vars

\* C22: a mod's archive is being extracted into a directory that had no Mods
\* directory: its file below Mods was written, the directory exists, and the
\* loop stands at the directory entry that follows the file
C22_Witness ==
    /\ AtDirEntry
    /\ ArchiveAt(ap.url)[ap.ei].Name = <<"Mods">>
    /\ IsNil(ap.before[ModsM])
    /\ fileExists(ModsM)
    /\ <<"Mods">> \in dirs

\* no component without a version source stands before component c in the list
NoUntrackedBefore(c) == \A i \in Mods : i < c => ~IsNil(loaded.Mods[i].VersionUrl)

\* C23: in a run that follows a run that ended well, with the servers unchanged,
\* a component with a version source that has no component without one before it
\* is found up to date when the run decides on it, and its archive is neither
\* downloaded nor applied
C23_RunAfterSuccessAppliesNothingTracked ==
    hist.prevOk =>
        \A c \in Components :
            Tracked(c) /\ NoUntrackedBefore(c) =>
                /\ obs.class[c] \in {"-", "UpToDate"}
                /\ obs.downloads[c] = 0
                /\ obs.applied[c] = 0

\* the path of the archive entry whose extraction failed
FailedEntryName == ArchiveAt(ap.url)[ap.ei].Name

\* C24: when the extraction of an entry has failed because its content could not
\* be opened or decoded, a file that was at the entry's path before the archive
\* was applied still has the content it had
C24_FailedEntryKeepsExistingFile ==
    err.kind = "extract" =>
        (~IsNil(ap.before[FailedEntryName]) =>
             tree[FailedEntryName] = ap.before[FailedEntryName])

\* the bases of the game's recorded version and of the remote version are equal
SameBase == baseVersion(loaded.Game.Version) = baseVersion(remote[0])

\* the run has come to the game's own update, past the base game step
PastBaseGame == obs.class[0] # "-"

\* C25: the base game archive is downloaded only in a run that began without the
\* marker file and with equal bases, and such a run has downloaded and applied
\* it once when it comes to the game's update; a run that began without the
\* marker and with different bases downloads no archive at all, never gets to
\* the game's update, and ends in failure
C25_BaseGameIffMarkerAbsentAndSameBase ==
    /\ (obs.downloads[BaseGame] >= 1 => ~obs.marker /\ SameBase)
    /\ (PastBaseGame =>
            (obs.applied[BaseGame] = 1 /\ obs.downloads[BaseGame] = 1
                 <=> ~obs.marker /\ SameBase))
    /\ (PastBaseGame /\ ~(~obs.marker /\ SameBase) => obs.downloads[BaseGame] = 0)
    /\ (pc \notin {"idle"} /\ ~obs.marker /\ ~SameBase =>
            /\ \A c \in ApTargets : obs.downloads[c] = 0 /\ obs.applied[c] = 0
            /\ ~PastBaseGame
            /\ ~Succeeded
            /\ (err.kind = "base game version" \/ idx = 0))

\* C25: a run that began without the marker file and with equal bases ended well
\* after the base game archive and the game's patch were both applied
C25_Witness ==
    /\ Succeeded
    /\ ~obs.marker
    /\ SameBase
    /\ obs.applied[BaseGame] = 1
    /\ obs.applied[0] = 1

(* ------------------- progressWriter during a download ------------------- *)

\* the size a transport reports: response.ContentLength is -1 when the length
\* is not known, and otherwise the number of bytes, as is megadl's info.Size
UnknownSize == 0 - 1

Sizes == {UnknownSize} \cup (0..MaxSize)

\* the two families of locators download knows
Families == {"http", "mega"}

\* the number of bytes a stream can deliver: a net/http body of a known length
\* ends after that many bytes; a body of unknown length and a megadl stream,
\* whose size comes from the file's attributes, are not tied to the size
MostBytes(family, size) ==
    IF family = "http" /\ size >= 0 THEN size ELSE MaxSize + 1

\* Go's integer division, which truncates toward zero (b # 0)
GoDiv(a, b) ==
    LET abs(x) == IF x < 0 THEN 0 - x ELSE x
        q == abs(a) \div abs(b)
    IN  IF (a < 0) = (b < 0) THEN q ELSE 0 - q

\* download has created the output file and io.Copy is about to read the
\* stream through io.TeeReader(reader, progressWriter)
InitProgress ==
    /\ build \in Builds
    /\ \E family \in Families, size \in Sizes :
          ap = [family |-> family, totalSize |-> size, downloaded |-> 0,
                lastPercent |-> 0 - 1, printed |-> <<>>, n |-> 0, ret |-> None]
    /\ pc = "copy"
    /\ disk = [Game |-> GameRecord(V100, FALSE, None),
               Mods |-> [i \in Mods |-> ModOfKind(i, "untracked", FALSE, None)],
               Intact |-> TRUE]
    /\ config = disk
    /\ loaded = disk
    /\ remote = [c \in Components |-> V100]
    /\ tree = FreshTree
    /\ dirs = {}
    /\ tmp = {PatchZip}
    /\ idx = 0
    /\ forceUpdate = FALSE
    /\ remoteVersion = EmptyVersion
    /\ err = NoErr
    /\ obs = NoObs
    /\ hist = [everApplied |-> [c \in Components |-> FALSE], last |-> NoUrl,
               idem |-> [done |-> FALSE, same |-> FALSE, treeSame |-> FALSE, writes |-> 0],
               prevOk |-> FALSE]
    /\ runs = 0

\* progressWriter.Write(p) for a chunk of n bytes the stream delivered
Write ==
    /\ pc = "copy"
    /\ \E n \in 1..(MaxSize + 1) :
          /\ ap.downloaded + n <= MostBytes(ap.family, ap.totalSize)
          /\ LET downloaded == ap.downloaded + n IN
             IF ap.totalSize = 0
             THEN \* integer divide by zero: the runtime panics
                  /\ ap' = [ap EXCEPT !.downloaded = downloaded, !.n = n]
                  /\ pc' = "crashed"
             ELSE LET percent == GoDiv(downloaded * 100, ap.totalSize) IN
                  /\ ap' = [ap EXCEPT
                              !.downloaded = downloaded,
                              !.n = n,
                              !.lastPercent = IF percent > @ THEN percent ELSE @,
                              !.printed = IF percent > ap.lastPercent
                                          THEN Append(@, percent) ELSE @,
                              !.ret = Some([n |-> n, err |-> "nil"])]
                  /\ UNCHANGED pc
    /\ UNCHANGED <<build, disk, config, loaded, remote, tree, dirs, tmp, idx, forceUpdate,
                   remoteVersion, err, obs, hist, runs>>

\* the stream has ended and io.Copy returns
CopyReturns ==
    /\ pc = "copy"
    /\ pc' = "copied"
    /\ UNCHANGED <<build, disk, config, loaded, remote, tree, dirs, tmp, idx, forceUpdate,
                   remoteVersion, err, ap, obs, hist, runs>>

NextProgress == Write \/ CopyReturns

SpecProgress == InitProgress /\ [][NextProgress]_vars

\* C26: whatever size the transport reported and whatever chunks were written,
\* no call of progressWriter.Write has faulted, the last call returned the
\* length of its chunk and no error, the percentages printed so far are strictly
\* increasing, and they lie in 0..100 as long as no more bytes were received
\* than the size announced
C26_ProgressWriterNeverFaults ==
    /\ ~Crashed
    /\ (ap.n > 0 => ap.ret = Some([n |-> ap.n, err |-> "nil"]))
    /\ \A i, j \in 1..Len(ap.printed) : i < j => ap.printed[i] < ap.printed[j]
    /\ (ap.downloaded <= ap.totalSize =>
            \A i \in 1..Len(ap.printed) : ap.printed[i] >= 0 /\ ap.printed[i] <= 100)

====
